---- MODULE Spec2Model ----
(***************************************************************************)
(* Dark Heresy Sandbox API (backend/app/main.py, models.py, schemas.py,    *)
(* ollama_client.py) as a state machine.                                   *)
(*                                                                         *)
(* The state is the committed content of the database: one sequence per    *)
(* table, a row's id being its position (ids are autoincrement integers    *)
(* starting at 1 and nothing is ever deleted).  Every request handler      *)
(* is one action that ends in its commit; autogenerate_adventure commits   *)
(* twice and is two actions.  A handler that raises HTTPException before   *)
(* it writes leaves the database as it was: its action changes nothing.    *)
(* `rows` is the body the caller of list_logs received last, `message`    *)
(* the message, or the detail of the HTTPException, that the caller of     *)
(* resolve_encounter or autogenerate_adventure received last.              *)
(*                                                                         *)
(* main.py reads and writes ORM attributes (Campaign.name, NPC.status,     *)
(* Encounter.status/outcome/objective_*, LogEntry.scene_id/text, Check)    *)
(* that the handlers define by their use; the column defaults they rely    *)
(* on are named below (NPCStatusDefault, EncounterStatusDefault).          *)
(*                                                                         *)
(* Strings: the Russian literals of main.py are written as ASCII            *)
(* stand-ins, one distinct string per literal.  Python None in an          *)
(* Optional[str] is the reserved string None, in an Optional[int] it is    *)
(* NoneId.                                                                  *)
(***************************************************************************)
EXTENDS Integers, Sequences, FiniteSets, TLC

\* ---------------------------------------------------------------- bounds
MaxCampaigns == 2
MaxLocations == 2
MaxScenes == 2
MaxNPCs == 2
MaxEncounters == 2
MaxChecks == 1
MaxLogs == 2
MaxClock == 1
MaxRows == 6
MaxDescLocations == 2
MaxDescScenes == 2
MaxDescNPCs == 1
MaxSessions == 2
MaxRaceLogs == 3

\* ---------------------------------------------------------------- values
None == "None"
NoneId == -1

\* Python truthiness of an Optional[str]: `x or default` takes default for
\* None and for "".
Truthy(s) == s # None /\ s # ""

Or(s, default) == IF Truthy(s) THEN s ELSE default

Outcomes == {"victory", "draw", "defeat", "retreat"}

NPCStatusDefault == "alive"
EncounterStatusDefault == "pending"

VARIABLES
    campaigns,      \* rows of table campaigns: [name]
    locations,      \* rows of table locations: [campaign_id]
    scenes,         \* rows of table scenes: [campaign_id, location_id, scene_type]
    npcs,           \* rows of table npcs: [campaign_id, status]
    encounters,     \* rows of table encounters
    checks,         \* rows of table checks: [scene_id, result]
    logs,           \* rows of table log_entries
    campaign_state, \* rows of table campaign_state: [campaign_id, current_scene_id]
    scene_choices,  \* rows of table scene_choices: [scene_id, label, to_scene_id]
    build_campaign, \* id of the campaign an autogenerate_adventure call has
                    \* committed while the call is still running, else 0
    build_status,   \* per campaign: "manual", or how the build that made it went
    message,        \* the "message" the last resolve_encounter returned, or
                    \* the error detail it or autogenerate_adventure raised
    rows,           \* the log ids, in order, the last list_logs returned
    advance_result, \* how the last AdvanceCampaign ended
    sessions        \* per request slot: the resolve_encounter call running in
                    \* it, with the Encounter its database session loaded

vars == <<campaigns, locations, scenes, npcs, encounters, checks, logs,
          campaign_state, scene_choices, build_campaign, build_status,
          message, rows, advance_result, sessions>>

store == <<campaigns, locations, scenes, npcs, encounters, checks, logs,
           campaign_state, scene_choices>>

Ids(table) == 1..Len(table)

\* Rows in the database, over all tables.
Rows ==
    Len(campaigns) + Len(locations) + Len(scenes) + Len(npcs)
    + Len(encounters) + Len(checks) + Len(logs)

\* datetime.utcnow at insert time: not before the newest stored timestamp.
LastTime == IF logs = <<>> THEN 0 ELSE logs[Len(logs)].created_at

Times == {t \in LastTime..(LastTime + 1) : t <= MaxClock}

LogEntry(campaign_id, scene_id, entry_type, text, t) ==
    [campaign_id |-> campaign_id, scene_id |-> scene_id,
     entry_type |-> entry_type, text |-> text, created_at |-> t]

\* Mutant of AppendLog: the newest row is written over.
AppendLog_overwrite(entry) ==
    IF logs = <<>> THEN <<entry>> ELSE [logs EXCEPT ![Len(logs)] = entry]

\* db.add(log) and the commit: one more row, after the rows already there.
AppendLog(entry) == Append(logs, entry)

\* get_db (lines 17-22) opens one Session per request; MaxSessions requests
\* can be in flight at a time.
Sessions == 1..MaxSessions

\* A slot with no request in it.
Idle ==
    [pc |-> "idle", encounter_id |-> 0, outcome |-> None,
     defeated_npc_ids |-> {}, enc |-> [status |-> None, outcome |-> None]]

NoSessions == [s \in Sessions |-> Idle]

Init ==
    /\ campaigns = <<>>
    /\ locations = <<>>
    /\ scenes = <<>>
    /\ npcs = <<>>
    /\ encounters = <<>>
    /\ checks = <<>>
    /\ logs = <<>>
    /\ campaign_state = <<>>
    /\ scene_choices = <<>>
    /\ build_campaign = 0
    /\ build_status = <<>>
    /\ message = ""
    /\ rows = <<>>
    /\ advance_result = "none"
    /\ sessions = NoSessions

\* ------------------------------------------------------------ campaigns
CampaignNames == {"Campaign"}

create_campaign(name) ==
    /\ Len(campaigns) < MaxCampaigns
    /\ Rows < MaxRows
    /\ campaigns' = Append(campaigns, [name |-> name])
    /\ build_status' = Append(build_status, "manual")
    /\ UNCHANGED <<message, rows, advance_result, sessions>>
    /\ UNCHANGED <<locations, scenes, npcs, encounters, checks, logs,
                   campaign_state, scene_choices, build_campaign>>

\* ------------------------------------------------------------ locations
create_location(campaign_id) ==
    IF campaign_id \notin Ids(campaigns)
    THEN UNCHANGED vars
    ELSE /\ Len(locations) < MaxLocations
         /\ Rows < MaxRows
         /\ locations' = Append(locations, [campaign_id |-> campaign_id])
         /\ UNCHANGED <<message, rows, advance_result, sessions>>
         /\ UNCHANGED <<campaigns, scenes, npcs, encounters, checks, logs,
                        campaign_state, scene_choices, build_campaign,
                        build_status>>

\* --------------------------------------------------------------- scenes
\* `if scene.location_id:` is false for None and for 0.
create_scene(campaign_id, location_id, scene_type) ==
    IF campaign_id \notin Ids(campaigns)
    THEN UNCHANGED vars
    ELSE IF /\ location_id # NoneId
            /\ location_id # 0
            /\ \/ location_id \notin Ids(locations)
               \/ locations[location_id].campaign_id # campaign_id
    THEN UNCHANGED vars
    ELSE /\ Len(scenes) < MaxScenes
         /\ Rows < MaxRows
         /\ scenes' = Append(scenes, [campaign_id |-> campaign_id,
                                      location_id |-> location_id,
                                      scene_type |-> scene_type])
         /\ UNCHANGED <<message, rows, advance_result, sessions>>
         /\ UNCHANGED <<campaigns, locations, npcs, encounters, checks, logs,
                        campaign_state, scene_choices, build_campaign,
                        build_status>>

\* ----------------------------------------------------------------- npcs
create_npc(campaign_id) ==
    IF campaign_id \notin Ids(campaigns)
    THEN UNCHANGED vars
    ELSE /\ Len(npcs) < MaxNPCs
         /\ Rows < MaxRows
         /\ npcs' = Append(npcs, [campaign_id |-> campaign_id,
                                  status |-> NPCStatusDefault])
         /\ UNCHANGED <<message, rows, advance_result, sessions>>
         /\ UNCHANGED <<campaigns, locations, scenes, encounters, checks, logs,
                        campaign_state, scene_choices, build_campaign,
                        build_status>>

\* ----------------------------------------------------------- encounters
TextFields == {"layout_scheme", "npc_summary", "objective_victory",
               "objective_draw", "objective_defeat", "objective_retreat"}

\* Bodies of a POST /encounters request (schemas.EncounterCreate): every text
\* is Optional[str].
NoTexts == [f \in TextFields |-> None]

AllTexts ==
    [layout_scheme |-> "layout", npc_summary |-> "enemies",
     objective_victory |-> "on victory", objective_draw |-> "on draw",
     objective_defeat |-> "on defeat", objective_retreat |-> "on retreat"]

Encounter(scene_id, texts) ==
    [scene_id |-> scene_id,
     status |-> EncounterStatusDefault,
     outcome |-> None,
     layout_scheme |-> texts.layout_scheme,
     npc_summary |-> texts.npc_summary,
     objective_victory |-> texts.objective_victory,
     objective_draw |-> texts.objective_draw,
     objective_defeat |-> texts.objective_defeat,
     objective_retreat |-> texts.objective_retreat]

\* Mutant of IsCombat: a scene of any type passes.
IsCombat_any(scene) == TRUE

\* Lines 145 and 236: `scene.scene_type != "combat"` is refused with 400.
IsCombat(scene) == scene.scene_type = "combat"

create_encounter(scene_id, texts) ==
    IF scene_id \notin Ids(scenes)
    THEN UNCHANGED vars
    ELSE IF ~IsCombat(scenes[scene_id])
    THEN UNCHANGED vars
    ELSE /\ Len(encounters) < MaxEncounters
         /\ Rows < MaxRows
         /\ encounters' = Append(encounters, Encounter(scene_id, texts))
         /\ UNCHANGED <<message, rows, advance_result, sessions>>
         /\ UNCHANGED <<campaigns, locations, scenes, npcs, checks, logs,
                        campaign_state, scene_choices, build_campaign,
                        build_status>>

\* ----------------------------------------------------- resolve_encounter
FallbackVictory == "You are victorious. Decide where to go next."
FallbackDraw == "The fight ended in a draw. The situation stays tense."
FallbackDefeat == "You were defeated. Think how you can get out of this."
FallbackRetreat == "You retreated. Find a way around or regroup."
GMNotesPrefix == "\n\nGM notes: "

\* The rows `db.query(NPC).filter(NPC.id.in_(ids)).all()` returns.
DefeatedNPCs(ids) == {n \in Ids(npcs) : n \in ids}

\* Mutant of MarkDead: the NPCs the request does not name are alive again.
MarkDead_listed(ids) ==
    [n \in Ids(npcs) |->
        [npcs[n] EXCEPT !.status =
            IF n \in DefeatedNPCs(ids) THEN "dead" ELSE "alive"]]

MarkDead(ids) ==
    [n \in Ids(npcs) |->
        IF n \in DefeatedNPCs(ids) THEN [npcs[n] EXCEPT !.status = "dead"]
        ELSE npcs[n]]

\* Mutant of OutcomeText: the defeat branch reads the retreat text.
OutcomeText_slip(enc, outcome) ==
    IF outcome = "victory" THEN Or(enc.objective_victory, FallbackVictory)
    ELSE IF outcome = "draw" THEN Or(enc.objective_draw, FallbackDraw)
    ELSE IF outcome = "defeat" THEN Or(enc.objective_retreat, FallbackDefeat)
    ELSE Or(enc.objective_retreat, FallbackRetreat)

OutcomeText(enc, outcome) ==
    IF outcome = "victory" THEN Or(enc.objective_victory, FallbackVictory)
    ELSE IF outcome = "draw" THEN Or(enc.objective_draw, FallbackDraw)
    ELSE IF outcome = "defeat" THEN Or(enc.objective_defeat, FallbackDefeat)
    ELSE Or(enc.objective_retreat, FallbackRetreat)

ConsequenceText(enc, outcome, gm_notes) ==
    IF Truthy(gm_notes)
    THEN OutcomeText(enc, outcome) \o GMNotesPrefix \o gm_notes
    ELSE OutcomeText(enc, outcome)

\* Mutant of ResolveLog: the entry is filed under LogEntryType.COMBAT_RESULT.
ResolveLog_combat_result(campaign_id, scene_id, text, t) ==
    LogEntry(campaign_id, scene_id, "combat_result", text, t)

\* Lines 212-217.
ResolveLog(campaign_id, scene_id, text, t) ==
    LogEntry(campaign_id, scene_id, "encounter", text, t)

\* Mutant of Resolved: a resolved encounter keeps its first outcome.
Resolved_once(enc, outcome) ==
    IF enc.status = "resolved" THEN enc
    ELSE [enc EXCEPT !.status = "resolved", !.outcome = outcome]

\* Lines 186-187.
Resolved(enc, outcome) == [enc EXCEPT !.status = "resolved", !.outcome = outcome]

EncounterNotFoundDetail == "Encounter not found"

\* Mutant of EncounterNotFound: the NPCs are marked and committed before
\* the encounter is looked up.
EncounterNotFound_marked(defeated_npc_ids) ==
    /\ message' = EncounterNotFoundDetail
    /\ npcs' = MarkDead(defeated_npc_ids)
    /\ UNCHANGED <<campaigns, locations, scenes, encounters, checks, logs,
                   campaign_state, scene_choices, build_campaign,
                   build_status, rows, advance_result, sessions>>

\* Lines 179-181: the 404 is raised before anything is written.
EncounterNotFound(defeated_npc_ids) ==
    /\ message' = EncounterNotFoundDetail
    /\ UNCHANGED <<store, build_campaign, build_status, rows, advance_result, sessions>>

\* defeated_npc_ids is a set here: None and [] both skip the branch of line
\* 190 and are the empty set.
resolve_encounter(encounter_id, outcome, defeated_npc_ids, gm_notes) ==
    IF encounter_id \notin Ids(encounters)
    THEN EncounterNotFound(defeated_npc_ids)
    ELSE LET enc == encounters[encounter_id]
             scene_id == enc.scene_id
             campaign_id == scenes[scene_id].campaign_id
             text == ConsequenceText(enc, outcome, gm_notes)
         IN /\ Len(logs) < MaxLogs
            /\ Rows < MaxRows
            /\ encounters' =
                   [encounters EXCEPT ![encounter_id] = Resolved(enc, outcome)]
            /\ npcs' = MarkDead(defeated_npc_ids)
            /\ \E t \in Times :
                   logs' = AppendLog(ResolveLog(campaign_id, scene_id, text, t))
            /\ message' = text
            /\ UNCHANGED <<rows, advance_result, sessions>>
            /\ UNCHANGED <<campaigns, locations, scenes, checks,
                           campaign_state, scene_choices, build_campaign,
                           build_status>>

\* ------------------------------------------- generate_encounter_for_scene
GenLayout == "A plain location without details."
GenEnemies == "Several enemies of the Emperor."
GenVictory == "You are victorious and may move on."
GenDraw == "A draw. The situation stays tense."
GenDefeat == "Defeat. The acolytes are in a hard position."
GenRetreat == "Retreat. Look for a way around or regroup."

\* The six texts after the `data.get(...) or "..."` lines 299-304.
GeneratedTexts(data) ==
    [layout_scheme |-> Or(data.layout_scheme, GenLayout),
     npc_summary |-> Or(data.npc_summary, GenEnemies),
     objective_victory |-> Or(data.objective_victory, GenVictory),
     objective_draw |-> Or(data.objective_draw, GenDraw),
     objective_defeat |-> Or(data.objective_defeat, GenDefeat),
     objective_retreat |-> Or(data.objective_retreat, GenRetreat)]

\* Mutant of Regenerated: a regenerated encounter is pending again.
Regenerated_reset(enc, texts) ==
    Encounter(enc.scene_id, texts)

\* The branch `if scene.encounter:` of lines 306-313: the six texts are
\* overwritten, nothing else.
Regenerated(enc, texts) ==
    [enc EXCEPT !.layout_scheme = texts.layout_scheme,
                !.npc_summary = texts.npc_summary,
                !.objective_victory = texts.objective_victory,
                !.objective_draw = texts.objective_draw,
                !.objective_defeat = texts.objective_defeat,
                !.objective_retreat = texts.objective_retreat]

\* Scene.encounter (uselist=False): the encounters whose scene_id is the
\* scene's.  With more than one row the relationship loads one of them.
SceneEncounters(scene_id) ==
    {e \in Ids(encounters) : encounters[e].scene_id = scene_id}

GenerateLogText(texts) ==
    "Generated an encounter for the scene\n\nLayout:\n" \o texts.layout_scheme
    \o "\n\nEnemies:\n" \o texts.npc_summary \o "\n"

\* ollama_error: generate_json raised OllamaError; data: the object it
\* returned otherwise (an absent key reads as None).
generate_encounter_for_scene(scene_id, ollama_error, data) ==
    IF scene_id \notin Ids(scenes)
    THEN UNCHANGED vars
    ELSE IF ~IsCombat(scenes[scene_id])
    THEN UNCHANGED vars
    ELSE IF ollama_error
    THEN UNCHANGED vars
    ELSE LET texts == GeneratedTexts(data)
         IN /\ Len(logs) < MaxLogs
            /\ IF SceneEncounters(scene_id) # {}
               THEN /\ Rows < MaxRows
                    /\ \E e \in SceneEncounters(scene_id) :
                           encounters' = [encounters EXCEPT
                                             ![e] = Regenerated(@, texts)]
               ELSE /\ Len(encounters) < MaxEncounters
                    /\ Rows + 1 < MaxRows
                    /\ encounters' =
                           Append(encounters, Encounter(scene_id, texts))
            /\ \E t \in Times :
                   logs' = AppendLog(
                       LogEntry(scenes[scene_id].campaign_id, scene_id,
                                "system", GenerateLogText(texts), t))
            /\ UNCHANGED <<message, rows, advance_result, sessions>>
            /\ UNCHANGED <<campaigns, locations, scenes, npcs, checks,
                           campaign_state, scene_choices, build_campaign,
                           build_status>>

\* --------------------------------------------------------------- checks
\* Requests of POST /checks; difficulty_label, difficulty_value and degrees
\* are absent in all of them.
CheckRequests ==
    {[actor_name |-> "Acolyte", check_type |-> "Awareness",
      result |-> "success", note |-> None],
     [actor_name |-> "Acolyte", check_type |-> "Dodge",
      result |-> "failure", note |-> "slipped"]}

CheckLogText(check) ==
    LET text == "Check: " \o check.actor_name \o " - " \o check.check_type
                \o ", result: " \o check.result
    IN IF Truthy(check.note) THEN text \o "\nNote: " \o check.note ELSE text

SceneNotFoundDetail == "Scene not found"

\* Mutant of CheckLog: the entry is filed under the campaign only.
CheckLog_no_scene(scene_id, check, t) ==
    LogEntry(scenes[scene_id].campaign_id, NoneId, "check",
             CheckLogText(check), t)

\* Lines 372-377: the entry of the scene and of the campaign of the scene.
CheckLog(scene_id, check, t) ==
    LogEntry(scenes[scene_id].campaign_id, scene_id, "check",
             CheckLogText(check), t)

create_check(scene_id, check) ==
    IF scene_id \notin Ids(scenes)
    THEN /\ message' = SceneNotFoundDetail
         /\ UNCHANGED <<store, build_campaign, build_status, rows,
                        advance_result, sessions>>
    ELSE /\ Len(checks) < MaxChecks
         /\ Len(logs) < MaxLogs
         /\ Rows + 1 < MaxRows
         /\ checks' = Append(checks, [scene_id |-> scene_id,
                                      result |-> check.result])
         /\ \E t \in Times : logs' = AppendLog(CheckLog(scene_id, check, t))
         /\ UNCHANGED <<message, rows, advance_result, sessions>>
         /\ UNCHANGED <<campaigns, locations, scenes, npcs, encounters,
                        campaign_state, scene_choices, build_campaign,
                        build_status>>

\* ----------------------------------------------------------------- logs
CampaignLogs(campaign_id) ==
    {i \in Ids(logs) : logs[i].campaign_id = campaign_id}

\* The answers `ORDER BY created_at ASC` allows: every arrangement of the
\* campaign's rows with ascending created_at.  Rows of equal created_at come
\* in the order the database picks.
OrderedByCreatedAt(ids) ==
    {r \in [1..Cardinality(ids) -> ids] :
        /\ \A i, j \in 1..Cardinality(ids) : i # j => r[i] # r[j]
        /\ \A i, j \in 1..Cardinality(ids) :
              i < j => logs[r[i]].created_at <= logs[r[j]].created_at}

list_logs(campaign_id) ==
    /\ \E r \in OrderedByCreatedAt(CampaignLogs(campaign_id)) :
           rows' = r
    /\ UNCHANGED <<store, build_campaign, build_status, message,
                   advance_result, sessions>>

\* ------------------------------------------------ autogenerate_adventure
\* What generate_json returned (a decoded JSON object), as far as the
\* handler reads it.
\*   campaign: "absent" (no key, or null), "empty" ({}), "nameless" (an
\*     object without a name) or "named";
\*   locations, scenes, npcs: [null, items]; null is a key whose value is
\*     null, an absent key is the empty list (the default of data.get);
\*   an item of a list is an object (is_dict) or some other JSON value.
PlaceholderName == "Nameless campaign"
GeneratedName == "The Tyrant Star"

CampaignName(campaign_data) ==
    IF campaign_data = "named" THEN GeneratedName ELSE PlaceholderName

OllamaErrorDetail == "Ollama error"
MissingCampaignDetail == "Ollama response missing 'campaign' object"

\* Mutant of MissingCampaign: the campaign object is never checked.
MissingCampaign_unchecked(campaign_data) == FALSE

\* Line 485, `not campaign_data`: no key, null, or an empty object.
MissingCampaign(campaign_data) == campaign_data \in {"absent", "empty"}

\* The HTTPException of lines 478 and 486: nothing was written.
BuildRefused(detail) ==
    /\ message' = detail
    /\ UNCHANGED <<store, build_campaign, build_status, rows, advance_result, sessions>>

\* First commit of the handler (lines 475-494): the campaign row alone.
autogenerate_begin(ollama_error, campaign_data) ==
    IF ollama_error
    THEN BuildRefused(OllamaErrorDetail)
    ELSE IF MissingCampaign(campaign_data)
    THEN BuildRefused(MissingCampaignDetail)
    ELSE /\ build_campaign = 0
         /\ Len(campaigns) < MaxCampaigns
         /\ Rows < MaxRows
         /\ campaigns' = Append(campaigns, [name |-> CampaignName(campaign_data)])
         /\ build_status' = Append(build_status, "running")
         /\ build_campaign' = Len(campaigns) + 1
         /\ UNCHANGED <<locations, scenes, npcs, encounters, checks, logs,
                        campaign_state, scene_choices, message, rows,
                        advance_result, sessions>>

List(items) == [null |-> FALSE, items |-> items]
NullList == [null |-> TRUE, items |-> <<>>]

\* location_index of a scene object: absent, an integer, or another value
\* (null, a string, a float, a list, an object).  JSON true and false are
\* Python bools, which isinstance(loc_index, int) accepts as 1 and 0.
NoIndex == [kind |-> "absent", value |-> 0]
IntIndex(i) == [kind |-> "int", value |-> i]
BoolIndex(b) == IntIndex(IF b THEN 1 ELSE 0)
OtherIndex == [kind |-> "other", value |-> 0]

\* Mutant of SceneLocationId: the upper bound of the index is off by one.
SceneLocationId_off_by_one(index, first, n) ==
    LET raw == IF index.kind = "absent" THEN IntIndex(0) ELSE index
        loc_index == IF raw.kind # "int" \/ raw.value < 0 \/ raw.value > n
                     THEN 0 ELSE raw.value
    IN IF n > 0 THEN first + loc_index ELSE NoneId

\* Lines 510-513.  n is len(location_id_map), first the id of its entry 0.
SceneLocationId(index, first, n) ==
    LET raw == IF index.kind = "absent" THEN IntIndex(0) ELSE index
        loc_index == IF raw.kind # "int" \/ raw.value < 0 \/ raw.value >= n
                     THEN 0 ELSE raw.value
    IN IF n > 0 THEN first + loc_index ELSE NoneId

\* Lines 515-517.
BuiltSceneType(scene_type) ==
    LET t == Or(scene_type, "social")
    IN IF t \notin {"social", "investigation", "combat"} THEN "social" ELSE t

\* Lines 530-540: enc_data.get(...) or "".
BuiltTexts(encounter) ==
    LET enc_data == IF encounter.present THEN encounter.texts ELSE NoTexts
    IN [f \in TextFields |-> Or(enc_data[f], "")]

Digits == <<"0", "1", "2", "3", "4", "5", "6", "7", "8", "9">>

BuildLogText(name, n_scenes, n_locations, n_npcs) ==
    "Generated campaign '" \o name \o "'.\nScenes: " \o Digits[n_scenes + 1]
    \o ", locations: " \o Digits[n_locations + 1]
    \o ", NPC: " \o Digits[n_npcs + 1] \o "."

\* The statements of lines 496-553 that raise: iterating null, and .get on
\* an item that is no object.
BuildRaises(desc) ==
    \/ desc.locations.null
    \/ \E i \in 1..Len(desc.locations.items) : ~desc.locations.items[i].is_dict
    \/ desc.scenes.null
    \/ \E i \in 1..Len(desc.scenes.items) : ~desc.scenes.items[i].is_dict
    \/ desc.npcs.null
    \/ \E i \in 1..Len(desc.npcs.items) : ~desc.npcs.items[i].is_dict

BuiltLocations(campaign_id, desc) ==
    [i \in 1..Len(desc.locations.items) |-> [campaign_id |-> campaign_id]]

BuiltScenes(campaign_id, desc) ==
    [i \in 1..Len(desc.scenes.items) |->
        [campaign_id |-> campaign_id,
         location_id |-> SceneLocationId(desc.scenes.items[i].location_index,
                                         Len(locations) + 1,
                                         Len(desc.locations.items)),
         scene_type |-> BuiltSceneType(desc.scenes.items[i].scene_type)]]

\* Mutant of HasEncounter: the Encounter follows the payload, not the kind.
HasEncounter_payload(sc) == sc.encounter.present

\* Line 531: an Encounter for every scene whose stored type is combat.
HasEncounter(sc) == BuiltSceneType(sc.scene_type) = "combat"

RECURSIVE BuiltEncountersFrom(_, _)
BuiltEncountersFrom(items, i) ==
    IF i > Len(items) THEN <<>>
    ELSE (IF HasEncounter(items[i])
          THEN <<Encounter(Len(scenes) + i, BuiltTexts(items[i].encounter))>>
          ELSE <<>>)
         \o BuiltEncountersFrom(items, i + 1)

BuiltEncounters(desc) == BuiltEncountersFrom(desc.scenes.items, 1)

BuiltNPCs(campaign_id, desc) ==
    [i \in 1..Len(desc.npcs.items) |->
        [campaign_id |-> campaign_id, status |-> NPCStatusDefault]]

\* Lines 496-568: everything after the first commit, in one transaction.
\* An exception ends the request; get_db closes the session and the
\* uncommitted rows are gone.
autogenerate_finish(desc) ==
    /\ build_campaign # 0
    /\ build_campaign' = 0
    /\ IF BuildRaises(desc)
       THEN /\ build_status' = [build_status EXCEPT ![build_campaign] = "failed"]
            /\ UNCHANGED <<store, message, rows, advance_result, sessions>>
       ELSE /\ Len(locations) + Len(desc.locations.items) <= MaxLocations
            /\ Len(scenes) + Len(desc.scenes.items) <= MaxScenes
            /\ Len(encounters) + Len(BuiltEncounters(desc)) <= MaxEncounters
            /\ Len(npcs) + Len(desc.npcs.items) <= MaxNPCs
            /\ Len(logs) < MaxLogs
            /\ Rows + Len(desc.locations.items) + Len(desc.scenes.items)
                 + Len(BuiltEncounters(desc)) + Len(desc.npcs.items) + 1
               <= MaxRows
            /\ locations' = locations \o BuiltLocations(build_campaign, desc)
            /\ scenes' = scenes \o BuiltScenes(build_campaign, desc)
            /\ encounters' = encounters \o BuiltEncounters(desc)
            /\ npcs' = npcs \o BuiltNPCs(build_campaign, desc)
            /\ \E t \in Times :
                   logs' = AppendLog(
                       LogEntry(build_campaign, NoneId, "system",
                                BuildLogText(campaigns[build_campaign].name,
                                             Len(desc.scenes.items),
                                             Len(desc.locations.items),
                                             Len(desc.npcs.items)), t))
            /\ build_status' = [build_status EXCEPT ![build_campaign] = "ok"]
            /\ UNCHANGED <<campaigns, checks, campaign_state, scene_choices,
                           message, rows, advance_result, sessions>>

\* ------------------------------------------------------ sets of requests
Object == [is_dict |-> TRUE]
Junk == [is_dict |-> FALSE]

\* choices: the target indexes of the choices a scene object declares
\* (NoneId for a choice without one).  The handler reads no such key.
SceneObject(scene_type, location_index, present, texts) ==
    [is_dict |-> TRUE, scene_type |-> scene_type,
     location_index |-> location_index,
     encounter |-> [present |-> present, texts |-> texts],
     choices |-> <<>>]

WithChoices(sc, choices) == [sc EXCEPT !.choices = choices]

JunkScene ==
    [is_dict |-> FALSE, scene_type |-> None, location_index |-> NoIndex,
     encounter |-> [present |-> FALSE, texts |-> NoTexts],
     choices |-> <<>>]

SeqsUpTo(S, n) == UNION {[1..k -> S] : k \in 0..n}

Description(l, s, n) == [locations |-> l, scenes |-> s, npcs |-> n]

PartialTexts ==
    [layout_scheme |-> "", npc_summary |-> None,
     objective_victory |-> "on victory", objective_draw |-> "",
     objective_defeat |-> None, objective_retreat |-> "on retreat"]

EncounterPayloads == {NoTexts, AllTexts, PartialTexts}

CampaignData == {"absent", "empty", "nameless", "named"}

GMNotes == {None, "", "spare the heretic"}

\* Defeated lists of a resolve request: none, one NPC, another NPC together
\* with an id no NPC has.
DefeatedLists == {{}, {1}, {2, MaxNPCs + 1}}

SceneTypes == {"social", "combat"}

LocationIds == {NoneId} \cup (1..(Len(locations) + 1))

\* location_id of a POST /scenes request: null, 0, a stored id, an unknown
\* id.
SceneLocationIds == LocationIds \cup {0}

CampaignIds == 1..(Len(campaigns) + 1)
SceneIds == 1..(Len(scenes) + 1)
EncounterIds == 1..(Len(encounters) + 1)

\* ------------------------------------------------------------------ Spec
\* All handlers that write, each on a few requests: a description that
\* raises, one without lists and one with a fight; two outcomes.  The
\* requests that resolve_encounter and autogenerate_adventure refuse are
\* in SpecNotFound and SpecBuild.
Descriptions ==
    {Description(NullList, List(<<>>), List(<<>>)),
     Description(List(<<>>), List(<<>>), List(<<>>)),
     Description(List(<<>>),
                 List(<<SceneObject("combat", NoIndex, TRUE, AllTexts)>>),
                 List(<<Object>>))}

Next ==
    \/ \E name \in CampaignNames : create_campaign(name)
    \/ \E c \in CampaignIds : create_location(c)
    \/ \E c \in CampaignIds, l \in LocationIds, t \in SceneTypes :
          create_scene(c, l, t)
    \/ \E c \in CampaignIds : create_npc(c)
    \/ \E s \in SceneIds : create_encounter(s, NoTexts)
    \/ \E e \in Ids(encounters), o \in {"victory", "retreat"},
          d \in {{}, {1}}, g \in {None, "spare the heretic"} :
          resolve_encounter(e, o, d, g)
    \/ \E s \in SceneIds, err \in BOOLEAN :
          generate_encounter_for_scene(s, err, AllTexts)
    \/ \E s \in Ids(scenes), check \in CheckRequests : create_check(s, check)
    \/ autogenerate_begin(FALSE, "named")
    \/ \E desc \in Descriptions : autogenerate_finish(desc)

Spec == Init /\ [][Next]_vars

\* ----------------------------------------------------------- SpecResolve
\* The encounter resolver on every outcome, note and defeated list for the
\* encounters there are, with the handlers that make its campaigns, scenes,
\* NPCs and encounters.
NextResolve ==
    \/ \E name \in CampaignNames : create_campaign(name)
    \/ \E c \in CampaignIds : create_scene(c, NoneId, "combat")
    \/ \E c \in CampaignIds : create_npc(c)
    \/ \E s \in SceneIds, texts \in EncounterPayloads :
          create_encounter(s, texts)
    \/ \E e \in Ids(encounters), o \in Outcomes, d \in DefeatedLists,
          g \in GMNotes :
          resolve_encounter(e, o, d, g)
    \/ \E s \in SceneIds, err \in BOOLEAN :
          generate_encounter_for_scene(s, err, NoTexts)

SpecResolve == Init /\ [][NextResolve]_vars

\* ---------------------------------------------------------- SpecNotFound
\* The encounter resolver on ids with and without an encounter, for every
\* defeated list.
NextNotFound ==
    \/ \E name \in CampaignNames : create_campaign(name)
    \/ \E c \in CampaignIds : create_scene(c, NoneId, "combat")
    \/ \E c \in CampaignIds : create_npc(c)
    \/ \E s \in SceneIds : create_encounter(s, NoTexts)
    \/ \E e \in EncounterIds, o \in {"victory", "defeat"},
          d \in DefeatedLists :
          resolve_encounter(e, o, d, None)

SpecNotFound == Init /\ [][NextNotFound]_vars

\* ------------------------------------------------------------- SpecBuild
\* The builder alone, on every description made of these parts.
LocationLists ==
    {NullList} \cup {List(l) : l \in SeqsUpTo({Object, Junk}, MaxDescLocations)}

SceneObjects ==
    {SceneObject("intro", NoIndex, FALSE, NoTexts),
     SceneObject("combat", IntIndex(1), TRUE, AllTexts),
     SceneObject("combat", IntIndex(MaxDescLocations), FALSE, NoTexts),
     SceneObject("social", IntIndex(-1), TRUE, PartialTexts),
     SceneObject("final", OtherIndex, FALSE, NoTexts),
     SceneObject(None, IntIndex(0), FALSE, NoTexts),
     SceneObject("dungeon", NoIndex, TRUE, NoTexts),
     SceneObject("investigation", IntIndex(1), FALSE, NoTexts),
     WithChoices(SceneObject("social", NoIndex, FALSE, NoTexts),
                 <<1, NoneId, MaxDescScenes>>),
     JunkScene}

SceneLists ==
    {NullList} \cup {List(l) : l \in SeqsUpTo(SceneObjects, MaxDescScenes)}

NPCLists ==
    {NullList} \cup {List(l) : l \in SeqsUpTo({Object, Junk}, MaxDescNPCs)}

AllDescriptions ==
    {Description(l, s, n) : l \in LocationLists, s \in SceneLists, n \in NPCLists}

NextBuild ==
    \/ \E err \in BOOLEAN, c \in CampaignData : autogenerate_begin(err, c)
    \/ \E desc \in AllDescriptions : autogenerate_finish(desc)

SpecBuild == Init /\ [][NextBuild]_vars

\* ------------------------------------------------------------- SpecIndex
\* The builder on every location_index of a scene, after manual campaigns
\* and locations that shift the ids of the rows it writes.
IndexValues ==
    {NoIndex, IntIndex(-1), IntIndex(0), IntIndex(1),
     IntIndex(MaxDescLocations), BoolIndex(TRUE), OtherIndex}

IndexScenes ==
    {SceneObject("social", index, FALSE, NoTexts) : index \in IndexValues}

IndexDescriptions ==
    {Description(List(l), List(s), List(<<>>)) :
        l \in SeqsUpTo({Object}, MaxDescLocations),
        s \in SeqsUpTo(IndexScenes, MaxDescScenes)}

NextIndex ==
    \/ \E name \in CampaignNames : create_campaign(name)
    \/ \E c \in CampaignIds : create_location(c)
    \/ \E c \in {"nameless", "named"} : autogenerate_begin(FALSE, c)
    \/ \E desc \in IndexDescriptions : autogenerate_finish(desc)

SpecIndex == Init /\ [][NextIndex]_vars

\* -------------------------------------------------------------- SpecRefs
\* The handlers that store a reference to a campaign, a location or a
\* scene, on ids of every kind.
NextRefs ==
    \/ \E name \in CampaignNames : create_campaign(name)
    \/ \E c \in CampaignIds : create_location(c)
    \/ \E c \in CampaignIds, l \in SceneLocationIds, t \in SceneTypes :
          create_scene(c, l, t)
    \/ \E c \in CampaignIds : create_npc(c)
    \/ \E s \in SceneIds : create_encounter(s, NoTexts)
    \/ \E e \in EncounterIds : resolve_encounter(e, "victory", {}, None)
    \/ \E s \in SceneIds : generate_encounter_for_scene(s, FALSE, NoTexts)
    \/ \E s \in Ids(scenes), check \in CheckRequests : create_check(s, check)
    \/ autogenerate_begin(FALSE, "named")
    \/ \E desc \in IndexDescriptions : autogenerate_finish(desc)

SpecRefs == Init /\ [][NextRefs]_vars

\* -------------------------------------------------------------- SpecRead
\* The reader of the log with the handlers that write to it.
NextRead ==
    \/ \E name \in CampaignNames : create_campaign(name)
    \/ \E c \in CampaignIds : create_scene(c, NoneId, "combat")
    \/ \E s \in SceneIds : create_encounter(s, NoTexts)
    \/ \E e \in EncounterIds : resolve_encounter(e, "victory", {}, None)
    \/ \E s \in SceneIds : generate_encounter_for_scene(s, FALSE, NoTexts)
    \/ \E s \in Ids(scenes), check \in CheckRequests : create_check(s, check)
    \/ autogenerate_begin(FALSE, "named")
    \/ \E desc \in Descriptions : autogenerate_finish(desc)
    \/ \E c \in CampaignIds : list_logs(c)

SpecRead == Init /\ [][NextRead]_vars

\* --------------------------------------------------------------- SpecNav
\* The Navigator and the choice-wiring passes of the Graph Builder are
\* declared by models.py (SceneChoice, CampaignState, LogEntryType.CHOICE)
\* and have no handler in main.py; they are modelled from the
\* specification (sections 4.1 and 4.2).
MaxNavScenes == 2
MaxNavChoices == 2
MaxNavEdges == 3
MaxAdvances == 2

NavKinds == {"intro", "social"}

\* Target index of a described choice: omitted, in range, or out of range.
TargetIndexes == {NoneId} \cup (0..MaxNavScenes)

NavSceneObjects ==
    {[kind |-> k, choices |-> cs] :
        k \in NavKinds, cs \in SeqsUpTo(TargetIndexes, MaxNavChoices)}

RECURSIVE NavEdges(_)
NavEdges(desc) ==
    IF desc = <<>> THEN 0
    ELSE Len(Head(desc).choices) + NavEdges(Tail(desc))

NavDescriptions ==
    {desc \in SeqsUpTo(NavSceneObjects, MaxNavScenes) :
        NavEdges(desc) <= MaxNavEdges}

\* The description of the second built campaign: one scene, one dead end.
OtherNavDescription == <<[kind |-> "social", choices |-> <<NoneId>>]>>

\* Pass 1: one Scene per described scene, in input order.
NavScenes(campaign_id, desc) ==
    [i \in 1..Len(desc) |->
        [campaign_id |-> campaign_id, location_id |-> NoneId,
         scene_type |-> desc[i].kind]]

\* Pass 2: a target index within bounds is the scene created at that
\* index, anything else leaves the target absent.
ChoiceTarget(index, first, n) ==
    IF index # NoneId /\ index >= 0 /\ index < n
    THEN first + 1 + index
    ELSE NoneId

ChoiceLabel(scene_id, k) == "choice " \o Digits[scene_id + 1] \o Digits[k + 1]

RECURSIVE NavChoicesFrom(_, _, _)
NavChoicesFrom(desc, first, i) ==
    IF i > Len(desc) THEN <<>>
    ELSE [k \in 1..Len(desc[i].choices) |->
             [scene_id |-> first + i,
              label |-> ChoiceLabel(first + i, k),
              to_scene_id |-> ChoiceTarget(desc[i].choices[k], first,
                                           Len(desc))]]
         \o NavChoicesFrom(desc, first, i + 1)

NavChoices(desc, first) == NavChoicesFrom(desc, first, 1)

\* Step 6: the first "intro" scene in input order, else the first scene,
\* else unset.
StartScene(desc, first) ==
    LET intros == {i \in 1..Len(desc) : desc[i].kind = "intro"}
    IN  IF intros # {}
        THEN first + CHOOSE i \in intros : \A j \in intros : i <= j
        ELSE IF desc # <<>> THEN first + 1 ELSE NoneId

\* The database after two builds and one create_campaign.
InitNav ==
    \E desc \in NavDescriptions :
        /\ campaigns = <<[name |-> "Campaign"], [name |-> "Campaign"],
                         [name |-> "Campaign"]>>
        /\ build_status = <<"ok", "ok", "manual">>
        /\ build_campaign = 0
        /\ locations = <<>>
        /\ npcs = <<>>
        /\ encounters = <<>>
        /\ checks = <<>>
        /\ scenes = NavScenes(1, desc) \o NavScenes(2, OtherNavDescription)
        /\ scene_choices = NavChoices(desc, 0)
                           \o NavChoices(OtherNavDescription, Len(desc))
        /\ campaign_state =
               <<[campaign_id |-> 1,
                  current_scene_id |-> StartScene(desc, 0)],
                 [campaign_id |-> 2,
                  current_scene_id |->
                      StartScene(OtherNavDescription, Len(desc))]>>
        /\ logs = <<LogEntry(1, NoneId, "system", "built", 0),
                    LogEntry(2, NoneId, "system", "built", 0)>>
        /\ message = ""
        /\ rows = <<>>
        /\ advance_result = "none"
        /\ sessions = NoSessions

StateOf(campaign_id) ==
    {st \in Ids(campaign_state) :
        campaign_state[st].campaign_id = campaign_id}

\* The choice exists and its origin scene belongs to the campaign.
ChoiceFound(campaign_id, choice_id) ==
    /\ choice_id \in Ids(scene_choices)
    /\ scenes[scene_choices[choice_id].scene_id].campaign_id = campaign_id

\* Mutant of ChoiceAvailable: any found choice may be taken.
ChoiceAvailable_any(state, choice) == TRUE

\* The choice leaves the scene the pointer is at.
ChoiceAvailable(state, choice) == choice.scene_id = state.current_scene_id

\* Mutant of AdvancedPointer: the pointer always takes the target.
AdvancedPointer_always(state, choice) == choice.to_scene_id

\* A dead-end choice keeps the pointer where it is.
AdvancedPointer(state, choice) ==
    IF choice.to_scene_id # NoneId
    THEN choice.to_scene_id
    ELSE state.current_scene_id

Advances == Cardinality({l \in Ids(logs) : logs[l].entry_type = "choice"})

AdvanceCampaign(campaign_id, choice_id) ==
    /\ UNCHANGED <<campaigns, locations, scenes, npcs, encounters, checks,
                   scene_choices, build_campaign, build_status, message,
                   rows, sessions>>
    /\ IF StateOf(campaign_id) = {}
       THEN /\ advance_result' = "StateNotInitializedError"
            /\ UNCHANGED <<campaign_state, logs>>
       ELSE IF ~ChoiceFound(campaign_id, choice_id)
       THEN /\ advance_result' = "ChoiceNotFoundError"
            /\ UNCHANGED <<campaign_state, logs>>
       ELSE LET st == CHOOSE st \in StateOf(campaign_id) : TRUE
                choice == scene_choices[choice_id]
            IN  IF ~ChoiceAvailable(campaign_state[st], choice)
                THEN /\ advance_result' = "ChoiceNotAvailableError"
                     /\ UNCHANGED <<campaign_state, logs>>
                ELSE /\ Advances < MaxAdvances
                     /\ campaign_state' =
                            [campaign_state EXCEPT ![st].current_scene_id =
                                AdvancedPointer(campaign_state[st], choice)]
                     /\ \E t \in Times :
                            logs' = AppendLog(LogEntry(campaign_id, NoneId,
                                                       "choice",
                                                       choice.label, t))
                     /\ advance_result' = "ok"

NextNav ==
    \E c \in Ids(campaigns), ch \in 1..(Len(scene_choices) + 1) :
        AdvanceCampaign(c, ch)

SpecNav == InitNav /\ [][NextNav]_vars

\* ---------------------------------------------------------------- claims
OwnCampaign(encounter_id) == scenes[encounters[encounter_id].scene_id].campaign_id

IsResolve(e, o, d, g) == e \in Ids(encounters) /\ resolve_encounter(e, o, d, g)

\* C1: BuildCampaign is all-or-nothing: no campaign of a build that failed
\* after its first write, or that has not finished, is visible.
C1_BuildAllOrNothing ==
    \A c \in Ids(campaigns) : build_status[c] \in {"manual", "ok"}

IsAdvance(c, ch) ==
    /\ c \in Ids(campaigns)
    /\ ch \in 1..(Len(scene_choices) + 1)
    /\ AdvanceCampaign(c, ch)

\* The scene the pointer of campaign c is at, NoneId without CampaignState.
CurrentScene(c) ==
    IF StateOf(c) = {} THEN NoneId
    ELSE campaign_state[CHOOSE st \in StateOf(c) : TRUE].current_scene_id

\* The preconditions of section 4.2, read off the state before the call.
MayAdvance(c, ch) ==
    /\ StateOf(c) # {}
    /\ ch \in Ids(scene_choices)
    /\ scenes[scene_choices[ch].scene_id].campaign_id = c
    /\ scene_choices[ch].scene_id = CurrentScene(c)

\* C2: AdvanceCampaign fails, leaving pointer and log unchanged, whenever
\* the campaign has no CampaignState, the choice does not exist or belongs
\* to another campaign (ChoiceNotFoundError), or the choice's origin is not
\* the current scene (ChoiceNotAvailableError); it succeeds only when the
\* origin equals current_scene.
C2_AdvanceFails ==
    [][\A c \in Ids(campaigns), ch \in 1..(Len(scene_choices) + 1) :
        IsAdvance(c, ch) =>
          /\ ~MayAdvance(c, ch) =>
                /\ advance_result' # "ok"
                /\ UNCHANGED <<campaign_state, logs>>
          /\ (StateOf(c) # {} /\ ~ChoiceFound(c, ch)) =>
                advance_result' = "ChoiceNotFoundError"
          /\ (/\ StateOf(c) # {}
              /\ ChoiceFound(c, ch)
              /\ scene_choices[ch].scene_id # CurrentScene(c)) =>
                advance_result' = "ChoiceNotAvailableError"
          /\ advance_result' = "ok" =>
                /\ ch \in Ids(scene_choices)
                /\ scene_choices[ch].scene_id = CurrentScene(c)]_vars

\* A choice was refused as not available after an earlier advance moved
\* the pointer, and pointer and log are as that advance left them.
C2_Witness ==
    /\ advance_result = "ChoiceNotAvailableError"
    /\ Advances = 1
    /\ Len(logs) = 3
    /\ \E ch \in Ids(scene_choices) :
          /\ logs[3].text = scene_choices[ch].label
          /\ scene_choices[ch].to_scene_id = CurrentScene(1)
          /\ scene_choices[ch].scene_id # CurrentScene(1)

\* C3: a successful AdvanceCampaign moves the pointer to the choice's
\* target when there is one and leaves it where it was on a dead end, and
\* appends exactly one LogEntry of kind "choice" whose text is the
\* choice's label; nothing else moves the pointer, so it follows exactly
\* the chosen edges.
C3_AdvanceFollowsChoice ==
    [][/\ \A c \in Ids(campaigns), ch \in 1..(Len(scene_choices) + 1) :
            (IsAdvance(c, ch) /\ MayAdvance(c, ch)) =>
              /\ advance_result' = "ok"
              /\ CurrentScene(c)' =
                    IF scene_choices[ch].to_scene_id # NoneId
                    THEN scene_choices[ch].to_scene_id
                    ELSE CurrentScene(c)
              /\ \A o \in Ids(campaigns) \ {c} :
                    CurrentScene(o)' = CurrentScene(o)
              /\ Len(logs') = Len(logs) + 1
              /\ SubSeq(logs', 1, Len(logs)) = logs
              /\ logs'[Len(logs')].entry_type = "choice"
              /\ logs'[Len(logs')].text = scene_choices[ch].label
              /\ logs'[Len(logs')].campaign_id = c
       /\ campaign_state' # campaign_state =>
            \E c \in Ids(campaigns), ch \in Ids(scene_choices) :
                IsAdvance(c, ch) /\ MayAdvance(c, ch)]_vars

\* Two advances of campaign 1: the first followed an edge to another
\* scene, the second was a dead end taken from there.
C3_Witness ==
    /\ advance_result = "ok"
    /\ Len(logs) = 4
    /\ \E a, b \in Ids(scene_choices) :
          /\ logs[3].text = scene_choices[a].label
          /\ logs[4].text = scene_choices[b].label
          /\ logs[3].campaign_id = 1
          /\ logs[4].campaign_id = 1
          /\ scene_choices[a].to_scene_id = scene_choices[b].scene_id
          /\ scene_choices[a].scene_id # scene_choices[b].scene_id
          /\ scene_choices[b].to_scene_id = NoneId
          /\ CurrentScene(1) = scene_choices[b].scene_id

\* C4: an encounter is pending when it is stored, and once it is resolved
\* every later step leaves it resolved.
C4_ResolvedIsTerminal ==
    [][\A e \in Ids(encounters') :
          IF e \in Ids(encounters)
          THEN encounters[e].status = "resolved"
               => encounters'[e].status = "resolved"
          ELSE encounters'[e].status = "pending"]_vars

\* A resolved encounter whose scene was regenerated after the resolution.
C4_Witness ==
    \E e \in Ids(encounters) :
        /\ encounters[e].status = "resolved"
        /\ \E i, j \in Ids(logs) :
              /\ i < j
              /\ logs[i].entry_type = "encounter"
              /\ logs[j].entry_type = "system"
              /\ logs[i].scene_id = encounters[e].scene_id
              /\ logs[j].scene_id = encounters[e].scene_id

\* C5: resolve_encounter sets dead exactly the NPCs that are in the defeated
\* list and belong to the campaign of the encounter's scene; every other NPC
\* keeps its status.
C5_DefeatedOfOwnCampaign ==
    [][\A e \in EncounterIds, o \in Outcomes, d \in DefeatedLists, g \in GMNotes :
          IsResolve(e, o, d, g) =>
              \A n \in Ids(npcs) :
                  npcs'[n].status =
                      IF n \in d /\ npcs[n].campaign_id = OwnCampaign(e)
                      THEN "dead" ELSE npcs[n].status]_vars

\* C6: the message of resolve_encounter is the encounter's text for the
\* outcome, or that outcome's fallback sentence when the text is empty,
\* followed by the GM-notes addendum exactly when notes are given.
OutcomeField ==
    [victory |-> "objective_victory", draw |-> "objective_draw",
     defeat |-> "objective_defeat", retreat |-> "objective_retreat"]

OutcomeFallback ==
    [victory |-> FallbackVictory, draw |-> FallbackDraw,
     defeat |-> FallbackDefeat, retreat |-> FallbackRetreat]

ClaimedText(enc, o, g) ==
    LET field == enc[OutcomeField[o]]
        base == IF field \in {None, ""} THEN OutcomeFallback[o] ELSE field
    IN IF g \in {None, ""} THEN base ELSE base \o GMNotesPrefix \o g

C6_ConsequenceText ==
    [][\A e \in EncounterIds, o \in Outcomes, d \in DefeatedLists, g \in GMNotes :
          IsResolve(e, o, d, g) => message' = ClaimedText(encounters[e], o, g)]_vars

\* A retreat from an encounter without a retreat text, resolved with notes.
C6_Witness ==
    /\ message = FallbackRetreat \o GMNotesPrefix \o "spare the heretic"
    /\ \E e \in Ids(encounters) :
          /\ encounters[e].outcome = "retreat"
          /\ ~Truthy(encounters[e].objective_retreat)

\* C7: a successful resolve_encounter appends exactly one log entry: kind
\* "encounter", the campaign and scene of the encounter, the returned text.
C7_ResolveLogsOnce ==
    [][\A e \in EncounterIds, o \in Outcomes, d \in DefeatedLists, g \in GMNotes :
          IsResolve(e, o, d, g) =>
              /\ Len(logs') = Len(logs) + 1
              /\ SubSeq(logs', 1, Len(logs)) = logs
              /\ logs'[Len(logs')].entry_type = "encounter"
              /\ logs'[Len(logs')].campaign_id = OwnCampaign(e)
              /\ logs'[Len(logs')].scene_id = encounters[e].scene_id
              /\ logs'[Len(logs')].text = message']_vars

\* Two resolutions, the second with notes, each with its entry.
C7_Witness ==
    /\ Len(logs) = 2
    /\ logs[1].entry_type = "encounter"
    /\ logs[2].entry_type = "encounter"
    /\ logs[2].text = message
    /\ logs[1].text # logs[2].text

\* C8: the log is append-only: every step keeps the entries written so far,
\* in place and unchanged.
C8_LogAppendOnly ==
    [][/\ Len(logs') >= Len(logs)
       /\ SubSeq(logs', 1, Len(logs)) = logs]_vars

\* A log of two entries written by different handlers.
C8_Witness ==
    /\ Len(logs) = 2
    /\ logs[1].entry_type # logs[2].entry_type

\* C9: list_logs returns the entries of the campaign in ascending creation
\* time, entries of equal creation time in the order they were written.
WriteOrder(ids) ==
    CHOOSE r \in [1..Cardinality(ids) -> ids] :
        \A i, j \in 1..Cardinality(ids) :
            i < j =>
                \/ logs[r[i]].created_at < logs[r[j]].created_at
                \/ /\ logs[r[i]].created_at = logs[r[j]].created_at
                   /\ r[i] < r[j]

C9_ListLogsInWriteOrder ==
    [][\A c \in CampaignIds :
          list_logs(c) => rows' = WriteOrder(CampaignLogs(c))]_vars

\* C10: after a successful build the campaign's state points at its first
\* intro scene, else at its first scene; without scenes no pointer is set.
CampaignScenes(c) == {sc \in Ids(scenes) : scenes[sc].campaign_id = c}

Min(S) == CHOOSE x \in S : \A y \in S : x <= y

FirstScene(c) ==
    LET intro == {sc \in CampaignScenes(c) : scenes[sc].scene_type = "intro"}
    IN IF intro # {} THEN Min(intro) ELSE Min(CampaignScenes(c))

C10_BuildSetsCurrentScene ==
    \A c \in Ids(campaigns) :
        build_status[c] = "ok" =>
            IF CampaignScenes(c) = {}
            THEN \A st \in Ids(campaign_state) :
                     campaign_state[st].campaign_id = c
                     => campaign_state[st].current_scene_id = NoneId
            ELSE \E st \in Ids(campaign_state) :
                     /\ campaign_state[st].campaign_id = c
                     /\ campaign_state[st].current_scene_id = FirstScene(c)

\* C11: every campaign that has scenes has exactly one CampaignState, and
\* its current scene is unset or a scene of that campaign.
C11_StateOfEveryCampaign ==
    \A c \in Ids(campaigns) :
        CampaignScenes(c) # {} =>
            /\ Cardinality(StateOf(c)) = 1
            /\ \A st \in StateOf(c) :
                  \/ campaign_state[st].current_scene_id = NoneId
                  \/ campaign_state[st].current_scene_id \in CampaignScenes(c)

\* A step of the builder that ends the build of desc successfully.
IsBuilt(desc) ==
    /\ build_campaign # 0
    /\ autogenerate_finish(desc)
    /\ build_status'[build_campaign] = "ok"

\* C12: after a successful build every declared choice exists with the
\* scene built from its scene object as origin; its target is the scene
\* built from the declared index when that is within the scene list and is
\* absent otherwise; a present target is in the campaign of the origin.
C12_ChoicesWired ==
    [][\A desc \in AllDescriptions :
          IsBuilt(desc) =>
            /\ \A s \in 1..Len(desc.scenes.items) :
                 \A k \in 1..Len(desc.scenes.items[s].choices) :
                   LET i == desc.scenes.items[s].choices[k]
                       target == IF i >= 0 /\ i < Len(desc.scenes.items)
                                 THEN Len(scenes) + 1 + i
                                 ELSE NoneId
                   IN \E ch \in Ids(scene_choices') :
                        /\ scene_choices'[ch].scene_id = Len(scenes) + s
                        /\ scene_choices'[ch].to_scene_id = target
            /\ \A ch \in Ids(scene_choices') :
                 scene_choices'[ch].to_scene_id # NoneId =>
                   scenes'[scene_choices'[ch].to_scene_id].campaign_id
                     = scenes'[scene_choices'[ch].scene_id].campaign_id]_vars

\* The location index of a scene object selects an entry of a list of n.
IndexInRange(index, n) ==
    index.kind = "int" /\ index.value >= 0 /\ index.value < n

AllObjects(list) == \A i \in 1..Len(list.items) : list.items[i].is_dict

OptionalPartDescriptions ==
    {desc \in AllDescriptions :
        AllObjects(desc.locations) /\ AllObjects(desc.scenes)
        /\ AllObjects(desc.npcs)}

\* C14: a build whose campaign summary is present completes whatever
\* optional parts are missing or null, and a campaign without a name gets
\* the placeholder name.
C14_BuildToleratesMissingParts ==
    [][\A desc \in OptionalPartDescriptions :
          (build_campaign # 0 /\ autogenerate_finish(desc)) =>
            /\ build_status'[build_campaign] = "ok"
            /\ campaigns'[build_campaign].name
                 \in {GeneratedName, PlaceholderName}]_vars

\* C15: when generate_json raises OllamaError or the description has no
\* campaign object, the build ends in an error and the store is as it was
\* before the call; the call leaves no build running.
C15_RefusedBuildWritesNothing ==
    [][\A err \in BOOLEAN, c \in CampaignData :
          (autogenerate_begin(err, c) /\ (err \/ c = "absent")) =>
            /\ message' = IF err THEN OllamaErrorDetail
                          ELSE MissingCampaignDetail
            /\ UNCHANGED <<store, build_campaign, build_status>>]_vars

\* A build refused for its missing campaign object after an earlier build
\* had filled the store.
C15_Witness ==
    /\ message = MissingCampaignDetail
    /\ build_campaign = 0
    /\ build_status = <<"ok">>
    /\ scenes # <<>>
    /\ logs # <<>>

\* C16: resolve_encounter on an id no encounter has ends in the not-found
\* error and writes nothing: encounters, NPCs and log are as before,
\* whatever the defeated list names.
C16_UnknownEncounterChangesNothing ==
    [][\A e \in EncounterIds \ Ids(encounters), o \in Outcomes,
          d \in DefeatedLists :
          resolve_encounter(e, o, d, None) =>
            /\ message' = EncounterNotFoundDetail
            /\ UNCHANGED store]_vars

\* A not-found resolve in a store with a living NPC that the defeated
\* lists name, a pending encounter and a resolved one.
C16_Witness ==
    /\ message = EncounterNotFoundDetail
    /\ Len(npcs) >= 1
    /\ npcs[1].status = NPCStatusDefault
    /\ \E e1, e2 \in Ids(encounters) :
          /\ encounters[e1].status = "pending"
          /\ encounters[e2].status = "resolved"

\* The request (o, d) has already been applied to encounter e.
AlreadyApplied(e, o, d) ==
    /\ encounters[e].status = "resolved"
    /\ encounters[e].outcome = o
    /\ \A n \in d \cap Ids(npcs) : npcs[n].status = "dead"

\* C17: resolve_encounter is accepted whatever the status of the encounter
\* and leaves it resolved with the outcome of this call and the defeated
\* NPCs dead; repeated with the same arguments it leaves encounters and
\* NPCs as they are; every call adds exactly one "encounter" log entry.
C17_ResolveAgain ==
    [][\A e \in EncounterIds, o \in Outcomes, d \in DefeatedLists, g \in GMNotes :
          IsResolve(e, o, d, g) =>
            /\ encounters'[e].status = "resolved"
            /\ encounters'[e].outcome = o
            /\ \A n \in d \cap Ids(npcs) : npcs'[n].status = "dead"
            /\ AlreadyApplied(e, o, d) => UNCHANGED <<encounters, npcs>>
            /\ Len(logs') = Len(logs) + 1
            /\ logs'[Len(logs')].entry_type = "encounter"
            /\ logs'[Len(logs')].scene_id = encounters[e].scene_id]_vars

\* One encounter resolved twice: two "encounter" entries, and the outcome
\* is that of the second call, which differs from the first.
C17_Witness ==
    /\ Len(encounters) = 1
    /\ Len(logs) = 2
    /\ logs[1].entry_type = "encounter"
    /\ logs[2].entry_type = "encounter"
    /\ logs[1].text = FallbackVictory
    /\ logs[2].text = FallbackDefeat
    /\ encounters[1].status = "resolved"
    /\ encounters[1].outcome = "defeat"

\* C18: every scene owns at most one encounter.
C18_OneEncounterPerScene ==
    \A s \in Ids(scenes) : Cardinality(SceneEncounters(s)) <= 1

\* C19: every encounter is attached to a combat scene, and no step changes
\* the type of a scene.
C19_EncountersOnCombatScenes ==
    [][/\ \A e \in Ids(encounters') :
             /\ encounters'[e].scene_id \in Ids(scenes')
             /\ scenes'[encounters'[e].scene_id].scene_type = "combat"
       /\ \A s \in Ids(scenes) :
             /\ s \in Ids(scenes')
             /\ scenes'[s].scene_type = scenes[s].scene_type]_vars

\* A campaign with a social scene and a combat scene whose encounter was
\* generated.
C19_Witness ==
    /\ \E s \in Ids(scenes) : scenes[s].scene_type = "social"
    /\ \E e \in Ids(encounters), l \in Ids(logs) :
          /\ logs[l].entry_type = "system"
          /\ logs[l].scene_id = encounters[e].scene_id
          /\ \E s \in Ids(scenes) :
                /\ scenes[s].scene_type = "social"
                /\ scenes[s].campaign_id
                     = scenes[encounters[e].scene_id].campaign_id

\* C20: no reference leaves its campaign: a scene's location is a location
\* of the scene's campaign, every location, NPC and scene belongs to a
\* campaign there is, and the scene of a log entry is a scene of the
\* entry's campaign.
C20_NoCrossCampaignReferences ==
    /\ \A s \in Ids(scenes) :
          /\ scenes[s].campaign_id \in Ids(campaigns)
          /\ scenes[s].location_id # NoneId =>
                /\ scenes[s].location_id \in Ids(locations)
                /\ locations[scenes[s].location_id].campaign_id
                     = scenes[s].campaign_id
    /\ \A l \in Ids(locations) : locations[l].campaign_id \in Ids(campaigns)
    /\ \A n \in Ids(npcs) : npcs[n].campaign_id \in Ids(campaigns)
    /\ \A l \in Ids(logs) :
          logs[l].scene_id # NoneId =>
                /\ logs[l].scene_id \in Ids(scenes)
                /\ scenes[logs[l].scene_id].campaign_id = logs[l].campaign_id

\* ------------------------------------------ concurrent resolve_encounter
\* resolve_encounter is a plain `def`, so two requests run in two threads,
\* each with the Session get_db gave it.  A request is two steps here: the
\* SELECT of line 179 that loads the Encounter into the Session, and the
\* commit of line 219 that writes what the Session holds.

\* Session.commit flushes, for a loaded row, the columns whose value in the
\* Session differs from the value that was loaded; the other columns keep
\* what the database holds.
Flushed(row, loaded, changed) ==
    [f \in DOMAIN row |->
        IF changed[f] # loaded[f] THEN changed[f] ELSE row[f]]

\* Lines 179-187: the 404, or the Encounter is loaded and its status and
\* outcome are set in the Session.
resolve_encounter_load(s, encounter_id, outcome, defeated_npc_ids) ==
    /\ sessions[s].pc = "idle"
    /\ IF encounter_id \notin Ids(encounters)
       THEN /\ message' = EncounterNotFoundDetail
            /\ UNCHANGED <<store, build_campaign, build_status, rows,
                           advance_result, sessions>>
       ELSE /\ sessions' =
                   [sessions EXCEPT ![s] =
                       [pc |-> "loaded", encounter_id |-> encounter_id,
                        outcome |-> outcome,
                        defeated_npc_ids |-> defeated_npc_ids,
                        enc |-> encounters[encounter_id]]]
            /\ UNCHANGED <<store, build_campaign, build_status, message,
                           rows, advance_result>>

\* Lines 189-221: the NPCs, the text, the log entry and the commit.
resolve_encounter_commit(s) ==
    LET req == sessions[s]
        scene_id == req.enc.scene_id
        campaign_id == scenes[scene_id].campaign_id
        text == ConsequenceText(req.enc, req.outcome, None)
    IN  /\ req.pc = "loaded"
        /\ Len(logs) < MaxRaceLogs
        /\ encounters' =
               [encounters EXCEPT ![req.encounter_id] =
                   Flushed(@, req.enc, Resolved(req.enc, req.outcome))]
        /\ npcs' = MarkDead(req.defeated_npc_ids)
        /\ \E t \in Times :
               logs' = AppendLog(ResolveLog(campaign_id, scene_id, text, t))
        /\ message' = text
        /\ sessions' = [sessions EXCEPT ![s] = Idle]
        /\ UNCHANGED <<campaigns, locations, scenes, checks, campaign_state,
                       scene_choices, build_campaign, build_status, rows,
                       advance_result>>

\* One campaign with a combat scene, an NPC and an Encounter nobody has
\* resolved yet.
InitRace ==
    /\ campaigns = <<[name |-> "Campaign"]>>
    /\ build_status = <<"manual">>
    /\ build_campaign = 0
    /\ locations = <<>>
    /\ scenes = <<[campaign_id |-> 1, location_id |-> NoneId,
                   scene_type |-> "combat"]>>
    /\ npcs = <<[campaign_id |-> 1, status |-> NPCStatusDefault]>>
    /\ encounters = <<Encounter(1, NoTexts)>>
    /\ checks = <<>>
    /\ logs = <<>>
    /\ campaign_state = <<>>
    /\ scene_choices = <<>>
    /\ message = ""
    /\ rows = <<>>
    /\ advance_result = "none"
    /\ sessions = NoSessions

NextRace ==
    \/ \E s \in Sessions, e \in 1..(Len(encounters) + 1), o \in Outcomes,
          d \in {{}, {1}} :
           resolve_encounter_load(s, e, o, d)
    \/ \E s \in Sessions : resolve_encounter_commit(s)

SpecRace == InitRace /\ [][NextRace]_vars

\* The "encounter" log entries of the scene of an Encounter, oldest first.
ResolveEntries(e) ==
    {l \in Ids(logs) : /\ logs[l].entry_type = "encounter"
                       /\ logs[l].scene_id = encounters[e].scene_id}

LastEntry(ls) == CHOOSE l \in ls : \A k \in ls : k <= l

\* C21: once no resolve_encounter request is in flight, an Encounter that
\* requests have resolved holds the outcome of the request whose "encounter"
\* log entry is the last one in the log, as it would after the requests had
\* run one after the other.  (The texts of the Encounter are empty here, so
\* the entry of a request is the fallback text of its outcome.)
C21_ConcurrentResolvesSerialize ==
    (\A s \in Sessions : sessions[s].pc = "idle") =>
        \A e \in Ids(encounters) :
            ResolveEntries(e) # {} =>
                /\ encounters[e].status = "resolved"
                /\ encounters[e].outcome \in Outcomes
                /\ logs[LastEntry(ResolveEntries(e))].text =
                       OutcomeFallback[encounters[e].outcome]

\* C22: in every state the outcome of an Encounter is set exactly when its
\* status is resolved, and an outcome that is set is one of the four outcome
\* tags and is the tag of the most recent successful resolution, the one
\* whose "encounter" log entry is the newest of the Encounter's scene.
C22_OutcomeOfLatestResolution ==
    \A e \in Ids(encounters) :
        /\ encounters[e].outcome # None <=> encounters[e].status = "resolved"
        /\ encounters[e].outcome # None =>
               /\ encounters[e].outcome \in Outcomes
               /\ ResolveEntries(e) # {}
               /\ OutcomeFallback[encounters[e].outcome] =
                      logs[LastEntry(ResolveEntries(e))].text

\* The members of the SceneType enum.
SceneKinds == {"intro", "social", "investigation", "combat", "final"}

\* C23: every stored Scene has a kind of SceneKinds, and a build stores each
\* scene with its declared kind when that kind is in SceneKinds (intro and
\* final included) and with kind social when the kind is missing or is not
\* in SceneKinds.
C23_SceneKindClosed ==
    [][/\ \A s \in Ids(scenes') : scenes'[s].scene_type \in SceneKinds
       /\ \A desc \in AllDescriptions :
            IsBuilt(desc) =>
              \A i \in 1..Len(desc.scenes.items) :
                LET declared == desc.scenes.items[i].scene_type
                IN scenes'[Len(scenes) + i].scene_type =
                       IF declared \in SceneKinds THEN declared ELSE "social"]_vars

\* ------------------------------------------------ builds with encounters
\* Scene objects of both kinds with and without an "encounter" object, the
\* object with all, some or none of its texts.
PayloadScenes ==
    {SceneObject("combat", NoIndex, p, t) :
         p \in {TRUE}, t \in EncounterPayloads}
    \cup {SceneObject("combat", NoIndex, FALSE, NoTexts),
          SceneObject("social", NoIndex, FALSE, NoTexts),
          SceneObject("social", NoIndex, TRUE, PartialTexts),
          SceneObject("dungeon", NoIndex, TRUE, AllTexts),
          SceneObject(None, NoIndex, FALSE, NoTexts)}

PayloadDescriptions ==
    {Description(List(<<>>), List(s), List(<<>>)) :
        s \in SeqsUpTo(PayloadScenes, MaxDescScenes)}

NextPayload ==
    \/ \E c \in {"nameless", "named"} : autogenerate_begin(FALSE, c)
    \/ \E desc \in PayloadDescriptions : autogenerate_finish(desc)

SpecPayload == Init /\ [][NextPayload]_vars

\* The Encounter a step has added for scene s, if any.
AddedEncounters(s) ==
    {e \in (Len(encounters) + 1)..Len(encounters') :
        encounters'[e].scene_id = s}

\* Every text field of the Encounters added for scene s is a string: the
\* text of the payload, or the empty string when the payload is missing,
\* omits the field or gives null.
TextsAreStrings(s, payload) ==
    \A e \in AddedEncounters(s) : \A f \in TextFields :
        /\ encounters'[e][f] # None
        /\ encounters'[e][f] =
               IF payload.present /\ payload.texts[f] # None
               THEN payload.texts[f] ELSE ""

\* C24 as claimed: a build creates an Encounter for a scene exactly when the
\* description of the scene carries an encounter payload, and every text
\* field of a built Encounter is a string, empty when the payload omits the
\* field or gives null.
C24_EncounterIffPayload ==
    [][\A desc \in PayloadDescriptions :
          IsBuilt(desc) =>
            \A i \in 1..Len(desc.scenes.items) :
              LET sc == desc.scenes.items[i]
              IN /\ AddedEncounters(Len(scenes) + i) # {}
                      <=> sc.encounter.present
                 /\ TextsAreStrings(Len(scenes) + i, sc.encounter)]_vars

\* C24 amended: a build creates exactly one Encounter for a scene when the
\* declared kind of the scene is combat and none otherwise, with or without
\* an encounter payload; every text field of a built Encounter is a string,
\* empty when the payload is missing, omits the field or gives null.
C24_EncounterIffCombat ==
    [][\A desc \in PayloadDescriptions :
          IsBuilt(desc) =>
            \A i \in 1..Len(desc.scenes.items) :
              LET sc == desc.scenes.items[i]
              IN /\ Cardinality(AddedEncounters(Len(scenes) + i)) =
                        IF sc.scene_type = "combat" THEN 1 ELSE 0
                 /\ TextsAreStrings(Len(scenes) + i, sc.encounter)]_vars

\* A built campaign with an Encounter whose six texts are all empty: the
\* Encounter of a combat scene that came without a payload.
C24_Witness ==
    \E e \in Ids(encounters) :
        /\ build_status[scenes[encounters[e].scene_id].campaign_id] = "ok"
        /\ \A f \in TextFields : encounters[e][f] = ""

\* C25: a successful build appends exactly one LogEntry, of kind system, of
\* the new campaign and of no scene, in the step that makes the locations,
\* scenes, Encounters and NPCs of the campaign visible, and that entry is
\* the first one of the campaign's log.
C25_BuildLogsOnceAndFirst ==
    [][\A desc \in Descriptions :
          IsBuilt(desc) =>
            /\ Len(logs') = Len(logs) + 1
            /\ SubSeq(logs', 1, Len(logs)) = logs
            /\ logs'[Len(logs')].entry_type = "system"
            /\ logs'[Len(logs')].campaign_id = build_campaign
            /\ logs'[Len(logs')].scene_id = NoneId
            /\ Len(locations') = Len(locations) + Len(desc.locations.items)
            /\ Len(scenes') = Len(scenes) + Len(desc.scenes.items)
            /\ Len(npcs') = Len(npcs) + Len(desc.npcs.items)
            /\ \A l \in Ids(logs) : logs[l].campaign_id # build_campaign]_vars

\* C26: every step that changes the locations, scenes, NPCs, Encounters or
\* checks of a campaign also adds at least one LogEntry of that campaign:
\* the entity store never changes while the log stays the same.
C26_EveryChangeIsLogged ==
    [][<<locations, scenes, npcs, encounters, checks>>' #
           <<locations, scenes, npcs, encounters, checks>>
       => /\ Len(logs') > Len(logs)
          /\ SubSeq(logs', 1, Len(logs)) = logs]_vars

NextCheck ==
    \/ \E name \in CampaignNames : create_campaign(name)
    \/ \E c \in CampaignIds, t \in SceneTypes : create_scene(c, NoneId, t)
    \/ \E s \in SceneIds : generate_encounter_for_scene(s, FALSE, NoTexts)
    \/ \E s \in 1..(Len(scenes) + 1), check \in CheckRequests :
          create_check(s, check)

SpecCheck == Init /\ [][NextCheck]_vars

\* The "check" log entries.
CheckEntries == {l \in Ids(logs) : logs[l].entry_type = "check"}

\* C28: create_check for an unknown scene fails with not-found and leaves
\* the store as it is; for a known scene it adds, in one step, exactly one
\* Check of that scene and exactly one LogEntry of kind check, of that scene
\* and of the campaign of that scene, and changes nothing else; after every
\* step each Check has its log entry and each check entry has its Check.
C28_CheckWithItsLogEntry ==
    [][/\ \A s \in 1..(Len(scenes) + 1), check \in CheckRequests :
            create_check(s, check) =>
              IF s \notin Ids(scenes)
              THEN message' = SceneNotFoundDetail /\ UNCHANGED store
              ELSE /\ Len(checks') = Len(checks) + 1
                   /\ SubSeq(checks', 1, Len(checks)) = checks
                   /\ checks'[Len(checks')].scene_id = s
                   /\ Len(logs') = Len(logs) + 1
                   /\ SubSeq(logs', 1, Len(logs)) = logs
                   /\ logs'[Len(logs')].entry_type = "check"
                   /\ logs'[Len(logs')].scene_id = s
                   /\ logs'[Len(logs')].campaign_id = scenes[s].campaign_id
                   /\ UNCHANGED <<campaigns, locations, scenes, npcs,
                                  encounters, campaign_state, scene_choices>>
       /\ Cardinality(CheckEntries') = Len(checks')
       /\ \A k \in Ids(checks') :
            \E l \in CheckEntries' : logs'[l].scene_id = checks'[k].scene_id]_vars

\* A Check is stored with its entry, and a request for a scene that
\* does not exist was refused.
C28_Witness ==
    /\ checks # <<>>
    /\ CheckEntries # {}
    /\ message = SceneNotFoundDetail
====
